---- MODULE Spec2Model ----
(***************************************************************************)
(* State-machine model of gtr::containers::hashmap (src/hashmap.h): an     *)
(* open-addressing hash table with tombstone deletion, a hash-dependent    *)
(* probe step that increases by one on every probe, and growth by full     *)
(* rehash into a new bucket array.                                         *)
(*                                                                         *)
(* A bucket index i stands for the pointer data + i; the index capacity    *)
(* stands for end() (data + capacity) and Null for a null bucket pointer.  *)
(***************************************************************************)
EXTENDS Integers, Naturals, Sequences, FiniteSets, TLC

\* ------------------------------------------------------------------ bounds
\* Keys: the keys of the general specification; RefKeys: those of the differential
\* run (add and remove only); FillKeys: those of the run that fills a table through
\* operator[] and then adds.
NumKeys == 3
NumRefKeys == 4
NumFillKeys == 5
NumValues == 1
MaxHash == 3
MaxReserve == 6
SkewHigh == 5
\* circular_buffer and deque: the items stored, the largest storage handed to a
\* circular_buffer, the elements per deque block, the largest deque and block map
NumItems == 2
MaxBufferCapacity == 4
BLOCK_SIZE == 2
MaxDequeSize == 4
MaxMapSize == 8
\* redblack_tree: the nodes the caller allocates
NumNodes == 7
\* How far the calls explored let end_offset fall below 0 and start_offset rise
\* above BLOCK_SIZE
MaxDrift == 1

Keys == 1..NumKeys
RefKeys == 1..NumRefKeys
FillKeys == 1..NumFillKeys
AllKeys == Keys \cup RefKeys \cup FillKeys
Values == 1..NumValues
HashVals == 0..MaxHash
ReserveArgs == 1..MaxReserve

\* --------------------------------------------------------- program constants
HASHMAP_BUCKET_OCCUPIED == 1
HASHMAP_BUCKET_TOMBSTONE == 2
\* load_factor = 0.75f = LoadNum / LoadDen, growth_factor = 1.0f
LoadNum == 3
LoadDen == 4
GrowthFactor == 1
BaseCapacity == 64
\* static_cast<std::size_t>(-1): the all-ones word, which no hash value of the
\* model (HashVals) equals
HashSentinel == -1
\* T() for an arithmetic mapped type
DefaultValue == 0
\* storage that holds no object: zeroed by memset, or left behind by ~Key() / ~T()
NoObject == 0
\* nullptr as a bucket index
Null == -1

\* data, size, capacity: the fields of hashmap (and of hashset); hashfn: HashFunc,
\* one hash value per key; ref: a reference container fed the same calls; last:
\* the call that ran last and how it ended; fault: the undefined behaviour the
\* process ran into. circular_buffer, deque, redblack_tree: one object of each
\* of these containers, a record of its fields.
VARIABLES data, size, capacity, hashfn, ref, last, fault,
          circular_buffer, deque, redblack_tree

vars == <<data, size, capacity, hashfn, ref, last, fault,
          circular_buffer, deque, redblack_tree>>

\* What the calls on a hash table leave alone
otherContainers == <<circular_buffer, deque, redblack_tree>>

\* ------------------------------------------------------------ bucket record
ocupied(b) == (b.flags % 2) = 1
tombstone(b) == ((b.flags \div 2) % 2) = 1
empty(b) == ~ocupied(b) /\ ~tombstone(b)

ZeroBucket == [flags |-> 0, key |-> NoObject, value |-> NoObject, hash |-> 0]

\* malloc(n) followed by memset(data, 0, n * bucket_size())
ZeroedArray(n) == [i \in 0..(n - 1) |-> ZeroBucket]

EmptyMap == [data |-> ZeroedArray(0), size |-> 0, capacity |-> 0]

ReservedMap(n) == [data |-> ZeroedArray(n), size |-> 0, capacity |-> n]

\* ------------------------------------------------------------------ probing
\* capacity - 1LL is 0 for capacity 1 and hash % 0 is undefined; callers decide
\* the trapping outcome, the non-trapping outcome leaves the dividend (x % 0 = x).
probe(h, c) == IF c = 1 THEN 1 + h ELSE 1 + (h % (c - 1))

DivByZero(c) == c = 1

RECURSIVE GetBucketLoop(_, _, _, _, _, _, _, _)
RECURSIVE GetBucketLoopFirstFree(_, _, _, _, _, _, _, _)
\* A probe loop that would stop at the first Tombstone instead of remembering it
\* and probing on for the key
GetBucketLoopFirstFree(d, c, key, h, index, key_probe, probes, first_tombstone) ==
    IF probes < c
    THEN IF ocupied(d[index])
         THEN IF d[index].hash = h /\ d[index].key = key
              THEN index
              ELSE GetBucketLoopFirstFree(d, c, key, h, (index + key_probe) % c,
                                          key_probe + 1, probes + 1, first_tombstone)
         ELSE index
    ELSE first_tombstone

RECURSIVE GetBucketLoopTakesEmpty(_, _, _, _, _, _, _, _)
\* A probe loop that would take the Empty bucket that ends the run although it
\* has seen a Tombstone
GetBucketLoopTakesEmpty(d, c, key, h, index, key_probe, probes, first_tombstone) ==
    IF probes < c
    THEN IF ocupied(d[index])
         THEN IF d[index].hash = h /\ d[index].key = key
              THEN index
              ELSE GetBucketLoopTakesEmpty(d, c, key, h, (index + key_probe) % c,
                                           key_probe + 1, probes + 1, first_tombstone)
         ELSE IF tombstone(d[index])
              THEN GetBucketLoopTakesEmpty(d, c, key, h, (index + key_probe) % c,
                                           key_probe + 1, probes + 1,
                                           IF first_tombstone = Null THEN index
                                           ELSE first_tombstone)
              ELSE index
    ELSE first_tombstone

\* The while loop of get_bucket; yields the bucket index it returns (before the
\* write of _hash), or Null.
GetBucketLoop(d, c, key, h, index, key_probe, probes, first_tombstone) ==
    IF probes < c
    THEN IF ocupied(d[index])
         THEN IF d[index].hash = h /\ d[index].key = key
              THEN index
              ELSE GetBucketLoop(d, c, key, h, (index + key_probe) % c, key_probe + 1,
                                 probes + 1, first_tombstone)
         ELSE IF tombstone(d[index])
              THEN GetBucketLoop(d, c, key, h, (index + key_probe) % c, key_probe + 1,
                                 probes + 1,
                                 IF first_tombstone = Null THEN index ELSE first_tombstone)
              ELSE IF first_tombstone # Null THEN first_tombstone ELSE index
    ELSE first_tombstone

\* get_bucket(key, hash_created) on table t with hash function hf: the bucket
\* returned, hash_created as left in the caller's variable, and the array after
\* the write of _hash into a returned bucket that is not Occupied.
get_bucket(t, hf, key, hash_created) ==
    LET h == IF hash_created = HashSentinel THEN hf[key] ELSE hash_created
        b == GetBucketLoop(t.data, t.capacity, key, h, h % t.capacity,
                           probe(h, t.capacity), 0, Null)
    IN  IF b = Null \/ ocupied(t.data[b])
        THEN [bucket |-> b, hash |-> h, data |-> t.data]
        ELSE [bucket |-> b, hash |-> h, data |-> [t.data EXCEPT ![b].hash = h]]

RECURSIVE FindLoopConstantStep(_, _, _, _, _, _, _)
\* A find loop that would advance by key_probe without incrementing it
FindLoopConstantStep(d, c, key, h, index, key_probe, probes) ==
    IF probes < c
    THEN IF ocupied(d[index])
         THEN IF d[index].hash = h /\ d[index].key = key
              THEN index
              ELSE FindLoopConstantStep(d, c, key, h, (index + key_probe) % c, key_probe,
                                        probes + 1)
         ELSE IF ~tombstone(d[index])
              THEN c
              ELSE FindLoopConstantStep(d, c, key, h, (index + key_probe) % c, key_probe,
                                        probes + 1)
    ELSE c

RECURSIVE FindLoop(_, _, _, _, _, _, _)
FindLoop(d, c, key, h, index, key_probe, probes) ==
    IF probes < c
    THEN IF ocupied(d[index])
         THEN IF d[index].hash = h /\ d[index].key = key
              THEN index
              ELSE FindLoop(d, c, key, h, (index + key_probe) % c, key_probe + 1, probes + 1)
         ELSE IF ~tombstone(d[index])
              THEN c
              ELSE FindLoop(d, c, key, h, (index + key_probe) % c, key_probe + 1, probes + 1)
    ELSE c

\* find(key) on table t with hash function hf: a bucket index, or t.capacity for end()
find(t, hf, key) ==
    IF t.size = 0
    THEN t.capacity
    ELSE FindLoop(t.data, t.capacity, key, hf[key], hf[key] % t.capacity,
                  probe(hf[key], t.capacity), 0)

\* -------------------------------------------------------- insert and rehash
will_regrow_next_insert(t) == (t.size + 1) * LoadDen >= t.capacity * LoadNum

RECURSIVE add_with_hash(_, _, _, _, _)
RECURSIVE reserve(_, _, _)
RECURSIVE ReserveLoop(_, _, _, _)

\* A grow that would give an unallocated table 16 buckets
growFromSixteen(t, hf) ==
    reserve(t, hf, IF t.capacity # 0 THEN t.capacity * (1 + GrowthFactor) ELSE 16)

grow(t, hf) ==
    reserve(t, hf, IF t.capacity # 0 THEN t.capacity * (1 + GrowthFactor) ELSE BaseCapacity)

RECURSIVE ReserveLoopKeepingTombstones(_, _, _, _)
\* A rehash that would carry the Tombstones over to the new array
ReserveLoopKeepingTombstones(t, hf, map, i) ==
    IF i < t.capacity
    THEN IF ocupied(t.data[i])
         THEN ReserveLoopKeepingTombstones(t, hf,
                  add_with_hash(map, hf, t.data[i].key, t.data[i].value, t.data[i].hash).t,
                  i + 1)
         ELSE IF tombstone(t.data[i]) /\ ~ocupied(map.data[i])
              THEN ReserveLoopKeepingTombstones(t, hf,
                       [map EXCEPT !.data[i] = t.data[i]], i + 1)
              ELSE ReserveLoopKeepingTombstones(t, hf, map, i + 1)
    ELSE map

RECURSIVE ReserveLoopZeroHash(_, _, _, _)
\* A rehash that would hand add_with_hash the hash 0 instead of the stored _hash
ReserveLoopZeroHash(t, hf, map, i) ==
    IF i < t.capacity
    THEN IF ocupied(t.data[i])
         THEN ReserveLoopZeroHash(t, hf,
                  add_with_hash(map, hf, t.data[i].key, t.data[i].value, 0).t, i + 1)
         ELSE ReserveLoopZeroHash(t, hf, map, i + 1)
    ELSE map

\* The for loop of reserve: re-insert the Occupied buckets of t, from index i on,
\* into map.
ReserveLoop(t, hf, map, i) ==
    IF i < t.capacity
    THEN IF ocupied(t.data[i])
         THEN ReserveLoop(t, hf,
                          add_with_hash(map, hf, t.data[i].key, t.data[i].value,
                                        t.data[i].hash).t,
                          i + 1)
         ELSE ReserveLoop(t, hf, map, i + 1)
    ELSE map

reserve(t, hf, n) ==
    IF n > t.capacity
    THEN ReserveLoop(t, hf, ReservedMap(n), 0)
    ELSE t

\* add_with_hash(key, value, hash): the table afterwards and the iterator
\* returned (a bucket index, or the new capacity for end()).
add_with_hash(t, hf, key, value, hash) ==
    LET g == IF will_regrow_next_insert(t) THEN grow(t, hf) ELSE t
        key_hash == IF hash = HashSentinel THEN hf[key] ELSE hash
        r == get_bucket(g, hf, key, key_hash)
    IN  IF r.bucket = Null
        THEN [t |-> g, it |-> g.capacity]
        ELSE IF ocupied(r.data[r.bucket])
             THEN [t |-> [g EXCEPT !.data = [r.data EXCEPT ![r.bucket].value = value]],
                   it |-> r.bucket]
             ELSE [t |-> [data |-> [r.data EXCEPT ![r.bucket] =
                                       [flags |-> HASHMAP_BUCKET_OCCUPIED, key |-> key,
                                        value |-> value, hash |-> key_hash]],
                          size |-> g.size + 1,
                          capacity |-> g.capacity],
                   it |-> r.bucket]

\* ------------------------------------------------------------------ state
Tbl == [data |-> data, size |-> size, capacity |-> capacity]

SetTbl(t) == data' = t.data /\ size' = t.size /\ capacity' = t.capacity

\* The call that ran last (op), how it ended (res) and whether it replaced the
\* bucket array (grew).
Call(op, res, grew) == [op |-> op, res |-> res, grew |-> grew]

\* The reference key-value map kept beside the table.
RefEmpty == [keys |-> {}, val |-> [k \in AllKeys |-> DefaultValue]]
RefPut(r, k, v) == [keys |-> r.keys \cup {k}, val |-> [r.val EXCEPT ![k] = v]]
RefDel(r, k) == [keys |-> r.keys \ {k}, val |-> [r.val EXCEPT ![k] = DefaultValue]]

\* HashFunc: every constant function (all keys collide) and the function that
\* spreads the keys round-robin over the hash values.
HashFuncs ==
    {[k \in AllKeys |-> c] : c \in HashVals}
        \cup {[k \in AllKeys |-> (k - 1) % (MaxHash + 1)]}

\* A HashFunc under which the middle keys collide and the first and the last key
\* hash next to them.
SkewHash ==
    [k \in AllKeys |-> IF k = 1 THEN 1 ELSE IF k >= NumFillKeys THEN SkewHigh + 1 ELSE SkewHigh]

\* ------------------------------------------------- the other containers, constructed
Items == 1..NumItems
Nodes == 1..NumNodes

\* circular_buffer(storage, cap) on a storage of cap unconstructed slots;
\* circular_buffer() is the case cap = 0 (buffer is nullptr)
NewCircularBuffer(cap) ==
    [buffer |-> [i \in 0..(cap - 1) |-> NoObject], read |-> 0, write |-> 0, capacity |-> cap]

\* deque(): no block map
NewDeque ==
    [block_map |-> <<>>, front_block |-> 0, back_block |-> 0, map_size |-> 0,
     start_offset |-> 0, end_offset |-> 0]

\* node(value): red, no children, no parent. Node n carries the value
\* (n + 1) \div 2, so that two nodes share each value.
NewNode(n) ==
    [value |-> (n + 1) \div 2, left |-> Null, right |-> Null, parent |-> Null, is_red |-> TRUE]

\* redblack_tree(): root is nullptr; node holds the nodes the caller has allocated
NewTree == [root |-> Null, node |-> [n \in Nodes |-> NewNode(n)]]

\* hashmap() (capacity 0, no array) or hashmap(_Reserved), with HashFunc among F
InitWith(F) ==
    /\ capacity \in {0} \cup ReserveArgs
    /\ data = ZeroedArray(capacity)
    /\ size = 0
    /\ hashfn \in F
    /\ ref = RefEmpty
    /\ last = Call("init", "constructed", FALSE)
    /\ fault = "none"
    /\ circular_buffer = NewCircularBuffer(0)
    /\ deque = NewDeque
    /\ redblack_tree = NewTree

Init == InitWith(HashFuncs)

\* The call stops in undefined behaviour f: the process is gone.
Trap(op, f) ==
    /\ fault' = f
    /\ last' = Call(op, "trapped", FALSE)
    /\ UNCHANGED <<data, size, capacity, hashfn, ref>>

\* The effect of add_with_hash(k, v, hash) on the table variables and on last.
AddEffect(k, v, hash) ==
    LET r == add_with_hash(Tbl, hashfn, k, v, hash)
    IN  /\ SetTbl(r.t)
        /\ last' = Call("add",
                        IF r.it = r.t.capacity THEN "full"
                        ELSE IF r.t.size = size THEN "updated" ELSE "inserted",
                        will_regrow_next_insert(Tbl))

\* add(key, value): add_with_hash with the sentinel
Add(k, v) ==
    /\ fault = "none"
    /\ AddEffect(k, v, HashSentinel)
    /\ ref' = RefPut(ref, k, v)
    /\ UNCHANGED <<hashfn, fault>>
    /\ UNCHANGED otherContainers

\* add_with_hash called with the precomputed hash of the key
AddWithHash(k, v) ==
    /\ fault = "none"
    /\ AddEffect(k, v, hashfn[k])
    /\ ref' = RefPut(ref, k, v)
    /\ UNCHANGED <<hashfn, fault>>
    /\ UNCHANGED otherContainers

\* operator[](key)
Subscript(k) ==
    /\ fault = "none"
    /\ LET g == IF capacity = 0 THEN grow(Tbl, hashfn) ELSE Tbl
           r == get_bucket(g, hashfn, k, HashSentinel)
       IN  \/ /\ DivByZero(g.capacity)
              /\ Trap("subscript", "div_zero")
           \/ /\ r.bucket = Null
              /\ Trap("subscript", "null_deref")
           \/ /\ r.bucket # Null
              /\ ocupied(r.data[r.bucket])
              /\ SetTbl([g EXCEPT !.data = r.data])
              /\ last' = Call("subscript", "found", capacity = 0)
              /\ UNCHANGED <<hashfn, ref, fault>>
           \/ /\ r.bucket # Null
              /\ ~ocupied(r.data[r.bucket])
              /\ SetTbl([data |-> [r.data EXCEPT ![r.bucket] =
                                      [flags |-> HASHMAP_BUCKET_OCCUPIED, key |-> k,
                                       value |-> DefaultValue, hash |-> r.hash]],
                         size |-> g.size + 1,
                         capacity |-> g.capacity])
              /\ last' = Call("subscript", "inserted", capacity = 0)
              /\ ref' = IF k \in ref.keys THEN ref ELSE RefPut(ref, k, DefaultValue)
              /\ UNCHANGED <<hashfn, fault>>
    /\ UNCHANGED otherContainers

\* find evaluates probe() only when size # 0
FindTraps == size # 0 /\ DivByZero(capacity)

Found(k) == find(Tbl, hashfn, k) # capacity

Lookup(op, k) ==
    /\ last' = Call(op, IF Found(k) THEN "found" ELSE "absent", FALSE)
    /\ UNCHANGED <<data, size, capacity, hashfn, ref, fault>>

Find(k) ==
    /\ fault = "none"
    /\ \/ FindTraps /\ Trap("find", "div_zero")
       \/ Lookup("find", k)
    /\ UNCHANGED otherContainers

\* contains(key): find(key) != end()
Contains(k) ==
    /\ fault = "none"
    /\ \/ FindTraps /\ Trap("contains", "div_zero")
       \/ Lookup("contains", k)
    /\ UNCHANGED otherContainers

\* try_get_value(key, Value)
TryGetValue(k) ==
    /\ fault = "none"
    /\ \/ FindTraps /\ Trap("try_get_value", "div_zero")
       \/ Lookup("try_get_value", k)
    /\ UNCHANGED otherContainers

\* What try_get_value(k, Value) returns and leaves in Value (out is the value
\* the caller's variable held before).
try_get_value(t, hf, k, out) ==
    LET it == find(t, hf, k)
    IN  IF it # t.capacity
        THEN [ok |-> TRUE, Value |-> t.data[it].value]
        ELSE [ok |-> FALSE, Value |-> out]

Get(k) ==
    /\ fault = "none"
    /\ \/ /\ capacity = 0
          /\ last' = Call("get", "absent", FALSE)
          /\ UNCHANGED <<data, size, capacity, hashfn, ref, fault>>
       \/ /\ DivByZero(capacity)
          /\ Trap("get", "div_zero")
       \/ /\ capacity # 0
          /\ LET r == get_bucket(Tbl, hashfn, k, HashSentinel)
             IN  /\ data' = r.data
                 /\ last' = Call("get",
                                 IF r.bucket # Null /\ ocupied(r.data[r.bucket])
                                 THEN "found" ELSE "absent", FALSE)
          /\ UNCHANGED <<size, capacity, hashfn, ref, fault>>
    /\ UNCHANGED otherContainers

\* A removal that would leave the bucket Empty instead of a Tombstone
EmptiedNotTombstoned(b) ==
    [flags |-> 0, key |-> NoObject, value |-> NoObject, hash |-> b.hash]

\* The bucket after key.~Key(), value.~T() and _flags = HASHMAP_BUCKET_TOMBSTONE
Tombstoned(b) ==
    [flags |-> HASHMAP_BUCKET_TOMBSTONE, key |-> NoObject, value |-> NoObject, hash |-> b.hash]

\* A removal that would forget size--
removeKeepingSize(t, hf, k) ==
    LET it == find(t, hf, k)
    IN  IF it # t.capacity
        THEN [t |-> [data |-> [t.data EXCEPT ![it] = Tombstoned(t.data[it])],
                     size |-> t.size,
                     capacity |-> t.capacity],
              it |-> it]
        ELSE [t |-> t, it |-> t.capacity]

\* remove(key) on table t: the table afterwards and the iterator returned
remove(t, hf, k) ==
    LET it == find(t, hf, k)
    IN  IF it # t.capacity
        THEN [t |-> [data |-> [t.data EXCEPT ![it] = Tombstoned(t.data[it])],
                     size |-> t.size - 1,
                     capacity |-> t.capacity],
              it |-> it]
        ELSE [t |-> t, it |-> t.capacity]

Remove(k) ==
    /\ fault = "none"
    /\ \/ FindTraps /\ Trap("remove", "div_zero")
       \/ /\ SetTbl(remove(Tbl, hashfn, k).t)
          /\ last' = Call("remove", IF Found(k) THEN "removed" ELSE "absent", FALSE)
          /\ ref' = RefDel(ref, k)
          /\ UNCHANGED <<hashfn, fault>>
    /\ UNCHANGED otherContainers

Reserve(n) ==
    /\ fault = "none"
    /\ SetTbl(reserve(Tbl, hashfn, n))
    /\ last' = Call("reserve", IF n > capacity THEN "rehashed" ELSE "kept", n > capacity)
    /\ UNCHANGED <<hashfn, ref, fault>>
    /\ UNCHANGED otherContainers

\* A clear that would run destroy() and size = 0 without the memset
ClearWithoutMemset ==
    /\ fault = "none"
    /\ data' = [i \in DOMAIN data |->
                    IF ocupied(data[i]) THEN Tombstoned(data[i]) ELSE data[i]]
    /\ size' = 0
    /\ ref' = RefEmpty
    /\ last' = Call("clear", "cleared", FALSE)
    /\ UNCHANGED <<capacity, hashfn, fault>>
    /\ UNCHANGED otherContainers

Clear ==
    /\ fault = "none"
    /\ data' = ZeroedArray(capacity)
    /\ size' = 0
    /\ ref' = RefEmpty
    /\ last' = Call("clear", "cleared", FALSE)
    /\ UNCHANGED <<capacity, hashfn, fault>>
    /\ UNCHANGED otherContainers

\* Every public operation
Next ==
    \/ \E k \in Keys, v \in Values : Add(k, v)
    \/ \E k \in Keys, v \in Values : AddWithHash(k, v)
    \/ \E k \in Keys : Subscript(k)
    \/ \E k \in Keys : Find(k)
    \/ \E k \in Keys : Contains(k)
    \/ \E k \in Keys : TryGetValue(k)
    \/ \E k \in Keys : Get(k)
    \/ \E k \in Keys : Remove(k)
    \/ \E n \in ReserveArgs : Reserve(n)
    \/ Clear

Spec == Init /\ [][Next]_vars

\* The calls of the randomized differential test, on more keys
NextRef ==
    \/ \E k \in RefKeys, v \in Values : Add(k, v)
    \/ \E k \in RefKeys : Remove(k)
    \/ \E k \in RefKeys : Contains(k)
    \/ \E k \in RefKeys : TryGetValue(k)

SpecRef == Init /\ [][NextRef]_vars

\* A table filled through operator[] and add, on still more keys
InitFill == InitWith({SkewHash})

NextFill ==
    \/ \E k \in FillKeys : Subscript(k)
    \/ \E k \in FillKeys, v \in Values : Add(k, v)
    \/ \E n \in ReserveArgs : Reserve(n)

SpecFill == InitFill /\ [][NextFill]_vars

\* ------------------------------------------------------- what the claims use
\* The value find(k) points at (k is found)
ValueOf(k) == data[find(Tbl, hashfn, k)].value

\* The Occupied buckets that hold key k
Holders(t, k) == {i \in DOMAIN t.data : ocupied(t.data[i]) /\ t.data[i].key = k}

\* C1 (hashmap round trip): once add(k, v) has returned, find(k) is not end(), its
\* bucket holds key k and value v, and try_get_value(k, out) is true with out = v.
C1_RoundTrip ==
    [][\A k \in RefKeys, v \in Values :
          Add(k, v) =>
              /\ Found(k)'
              /\ (data[find(Tbl, hashfn, k)].key = k)'
              /\ (ValueOf(k) = v)'
              /\ (try_get_value(Tbl, hashfn, k, DefaultValue) = [ok |-> TRUE, Value |-> v])'
      ]_vars

\* C2 (hashmap matches a reference map): after every step of a run of add, remove,
\* contains and try_get_value, contains(k) and try_get_value(k) answer as the
\* reference map does for every key k, and size is the number of keys of the
\* reference.
C2_MatchesReference ==
    /\ \A k \in RefKeys :
          /\ Found(k) <=> k \in ref.keys
          /\ try_get_value(Tbl, hashfn, k, DefaultValue)
                 = [ok |-> k \in ref.keys, Value |-> ref.val[k]]
    /\ size = Cardinality(ref.keys)

\* The keys find() finds in the table
FoundKeys == {k \in AllKeys : Found(k)}

\* C3 (growth preserves data): when add triggers grow(), or reserve(n) is called
\* with n > capacity, every key that was live before is found afterwards with its
\* last-written value, and the rehash leaves size as it was (add then counts the
\* key it inserts).
C3_GrowthPreservesData ==
    [][/\ \A k \in FillKeys, v \in Values :
             (Add(k, v) /\ will_regrow_next_insert(Tbl)) =>
                 /\ \A j \in FoundKeys \ {k} : Found(j)' /\ ValueOf(j)' = ValueOf(j)
                 /\ Found(k) => Found(k)' /\ ValueOf(k)' = v
                 /\ size' = size \/ (~Found(k) /\ size' = size + 1)
       /\ \A n \in ReserveArgs :
             (Reserve(n) /\ n > capacity) =>
                 /\ \A j \in FoundKeys : Found(j)' /\ ValueOf(j)' = ValueOf(j)
                 /\ size' = size
      ]_vars

\* C4 (remove affects only its key): a remove(k) of a live key k that returns
\* leaves k's bucket a Tombstone and find(k) = end(); every other key is found
\* afterwards exactly if it was found before, and find and try_get_value give
\* its value unchanged.
C4_RemoveAffectsOnlyKey ==
    [][last'.op = "remove" =>
          \A k \in Keys :
              (Remove(k) /\ Found(k) /\ fault' = "none") =>
                  /\ ~Found(k)'
                  /\ tombstone(data'[find(Tbl, hashfn, k)])
                  /\ \A j \in Keys \ {k} :
                        /\ Found(j)' <=> Found(j)
                        /\ Found(j) => ValueOf(j)' = ValueOf(j)
                        /\ try_get_value(Tbl, hashfn, j, DefaultValue)'
                              = try_get_value(Tbl, hashfn, j, DefaultValue)
      ]_vars

\* A key has just been removed and another key, whose probe chain starts at a
\* Tombstone, is still found.
C4_Witness ==
    /\ last = Call("remove", "removed", FALSE)
    /\ \E j \in Keys : Found(j) /\ tombstone(data[hashfn[j] % capacity])

\* C5 (idempotent remove): a remove(k) of a live key k that returns gives the
\* iterator of the bucket that held k, not end(), and size drops by exactly 1;
\* remove(k) on the table just obtained returns end() and changes neither size
\* nor any bucket.
C5_IdempotentRemove ==
    [][last'.op = "remove" =>
          \A k \in Keys :
              (Remove(k) /\ Found(k) /\ fault' = "none") =>
                  LET it == remove(Tbl, hashfn, k).it
                  IN  /\ it # capacity
                      /\ ocupied(data[it]) /\ data[it].key = k
                      /\ size' = size - 1
                      /\ remove(Tbl, hashfn, k)' = [t |-> Tbl', it |-> capacity']
      ]_vars

\* A live key has just been removed from a table that keeps other live keys.
C5_Witness ==
    /\ last = Call("remove", "removed", FALSE)
    /\ size > 0
    /\ \E k \in Keys : ~Found(k) /\ \E i \in DOMAIN data : tombstone(data[i])

\* C6 (load-factor bound): right after add, add_with_hash or operator[] has
\* inserted a key, size <= capacity * load_factor, with load_factor = 3/4.
C6_LoadFactorBound ==
    (last.op \in {"add", "subscript"} /\ last.res = "inserted")
        => size * LoadDen <= capacity * LoadNum

\* C7 (no duplicate live keys): in every state reached by add, add_with_hash,
\* operator[], remove, reserve and clear, at most one Occupied bucket holds any
\* given key.
C7_NoDuplicateLiveKeys ==
    \A k \in AllKeys : Cardinality(Holders(Tbl, k)) <= 1

\* add has just overwritten the value of a live key whose probe chain starts at
\* a Tombstone, the bucket an insert of that key would have been given.
C7_Witness ==
    /\ last.op = "add" /\ last.res = "updated"
    /\ \E k \in Keys :
          /\ Cardinality(Holders(Tbl, k)) = 1
          /\ tombstone(data[hashfn[k] % capacity])

\* C8 (update semantics): add(k, v2) on a table in which k is live leaves k
\* found with value v2, size unchanged and exactly one Occupied bucket holding k.
C8_UpdateSemantics ==
    [][last'.op = "add" =>
          \A k \in FillKeys, v \in Values :
              (Add(k, v) /\ Found(k)) =>
                  /\ Found(k)'
                  /\ ValueOf(k)' = v
                  /\ size' = size
                  /\ Cardinality(Holders(Tbl, k))' = 1
      ]_vars

\* C9 (operator[]): operator[](k) returns; when k is live, size and all buckets
\* are as before and the bucket referred to holds k; when k is absent, size grows
\* by exactly 1 and find(k) finds k with a default-constructed value.
C9_SubscriptSemantics ==
    [][last'.op = "subscript" =>
          \A k \in Keys :
              Subscript(k) =>
                  /\ fault' = "none"
                  /\ IF Found(k)
                     THEN /\ UNCHANGED <<data, size, capacity>>
                          /\ last'.res = "found"
                     ELSE /\ size' = size + 1
                          /\ Found(k)'
                          /\ ValueOf(k)' = DefaultValue
      ]_vars

\* C10 (no insert path uses a null bucket): when get_bucket returns null to add,
\* add_with_hash or operator[], the call reports that the key was not stored
\* and makes no access through the null pointer.
C10_NullBucketReported ==
    [][\A k \in Keys :
          /\ \A v \in Values :
                LET g == IF will_regrow_next_insert(Tbl) THEN grow(Tbl, hashfn) ELSE Tbl
                IN  ((Add(k, v) \/ AddWithHash(k, v))
                        /\ get_bucket(g, hashfn, k, hashfn[k]).bucket = Null)
                    => (fault' = "none" /\ last'.res = "full")
          /\ LET g == IF capacity = 0 THEN grow(Tbl, hashfn) ELSE Tbl
             IN  (Subscript(k) /\ ~DivByZero(g.capacity)
                     /\ get_bucket(g, hashfn, k, HashSentinel).bucket = Null)
                 => (fault' = "none" /\ last'.res = "full")
      ]_vars

\* C11 (insert never runs out of buckets): add(k, v) of a key that is not live
\* stores it in an Empty bucket or a Tombstone and does not return end(), in
\* every reachable state and for every hash function.
C11_InsertFindsBucket ==
    [][last'.op = "add" =>
          \A k \in RefKeys, v \in Values :
              (Add(k, v) /\ ~Found(k)) => (last'.res = "inserted" /\ Found(k)')
      ]_vars

\* C12 (reserve): reserve(n) with n > capacity leaves the table with capacity
\* exactly n; reserve(n) with n <= capacity changes neither capacity, size nor
\* any bucket.
C12_ReserveCapacity ==
    [][last'.op = "reserve" =>
          \A n \in ReserveArgs :
              Reserve(n) =>
                  IF n > capacity
                  THEN capacity' = n
                  ELSE UNCHANGED <<data, size, capacity>>
      ]_vars

\* C13 (clear): clear() leaves size = 0, every bucket Empty (neither Occupied
\* nor Tombstone), no key found, and capacity as it was.
C13_ClearEmptiesTable ==
    [][last'.op = "clear" =>
          (Clear =>
              /\ size' = 0
              /\ capacity' = capacity
              /\ DOMAIN data' = 0..(capacity - 1)
              /\ \A i \in DOMAIN data' : empty(data'[i])
              /\ \A k \in Keys : ~Found(k)')
      ]_vars

\* clear() has just run on a table that has buckets.
C13_Witness ==
    /\ last = Call("clear", "cleared", FALSE)
    /\ capacity > 1
    /\ \A i \in DOMAIN data : empty(data[i])

\* ------------------------------------------------------------------ hashset
\* gtr::containers::hashset (src/hashset.h). The variables data, size, capacity,
\* hashfn, ref, last and fault stand for the hashset under SpecSet; a
\* hashset_bucket has no value, its value field stays NoObject.

RECURSIVE hashset_GetBucketLoop(_, _, _, _, _, _, _, _)
\* The while loop of hashset::get_bucket. Its second test repeats
\* HASHSET_BUCKET_OCCUPIED, so a Tombstone takes the final else branch like an
\* Empty bucket and first_tombstone is never set.
hashset_GetBucketLoop(d, c, key, h, index, key_probe, probes, first_tombstone) ==
    IF probes < c
    THEN IF ocupied(d[index])
         THEN IF d[index].hash = h /\ d[index].key = key
              THEN index
              ELSE hashset_GetBucketLoop(d, c, key, h, (index + key_probe) % c,
                                         key_probe + 1, probes + 1, first_tombstone)
         ELSE IF ocupied(d[index])
              THEN hashset_GetBucketLoop(d, c, key, h, (index + key_probe) % c,
                                         key_probe + 1, probes + 1,
                                         IF first_tombstone = Null THEN index
                                         ELSE first_tombstone)
              ELSE IF first_tombstone # Null THEN first_tombstone ELSE index
    ELSE first_tombstone

\* hashset::get_bucket(key, hash_created): as get_bucket, over the loop above
hashset_get_bucket(t, hf, key, hash_created) ==
    LET h == IF hash_created = HashSentinel THEN hf[key] ELSE hash_created
        b == hashset_GetBucketLoop(t.data, t.capacity, key, h, h % t.capacity,
                                   probe(h, t.capacity), 0, Null)
    IN  IF b = Null \/ ocupied(t.data[b])
        THEN [bucket |-> b, hash |-> h, data |-> t.data]
        ELSE [bucket |-> b, hash |-> h, data |-> [t.data EXCEPT ![b].hash = h]]

RECURSIVE hashset_FindLoop(_, _, _, _, _, _, _)
\* The while loop of hashset::find: key_probe is not incremented
hashset_FindLoop(d, c, key, h, index, key_probe, probes) ==
    IF probes < c
    THEN IF ocupied(d[index])
         THEN IF d[index].hash = h /\ d[index].key = key
              THEN index
              ELSE hashset_FindLoop(d, c, key, h, (index + key_probe) % c, key_probe,
                                    probes + 1)
         ELSE IF ~tombstone(d[index])
              THEN c
              ELSE hashset_FindLoop(d, c, key, h, (index + key_probe) % c, key_probe,
                                    probes + 1)
    ELSE c

\* hashset::find(key): a bucket index, or t.capacity for end()
hashset_find(t, hf, key) ==
    IF t.size = 0
    THEN t.capacity
    ELSE hashset_FindLoop(t.data, t.capacity, key, hf[key], hf[key] % t.capacity,
                          probe(hf[key], t.capacity), 0)

RECURSIVE hashset_add_with_hash(_, _, _, _)
RECURSIVE hashset_reserve(_, _, _)
RECURSIVE hashset_ReserveLoop(_, _, _, _)

hashset_grow(t, hf) ==
    hashset_reserve(t, hf,
                    IF t.capacity # 0 THEN t.capacity * (1 + GrowthFactor) ELSE BaseCapacity)

\* The for loop of hashset::reserve
hashset_ReserveLoop(t, hf, map, i) ==
    IF i < t.capacity
    THEN IF ocupied(t.data[i])
         THEN hashset_ReserveLoop(t, hf,
                                  hashset_add_with_hash(map, hf, t.data[i].key,
                                                        t.data[i].hash).t,
                                  i + 1)
         ELSE hashset_ReserveLoop(t, hf, map, i + 1)
    ELSE map

hashset_reserve(t, hf, n) ==
    IF n > t.capacity
    THEN hashset_ReserveLoop(t, hf, ReservedMap(n), 0)
    ELSE t

\* hashset::add_with_hash(key, hash): the table afterwards and the iterator
\* returned (a bucket index, or the new capacity for end()).
hashset_add_with_hash(t, hf, key, hash) ==
    LET g == IF will_regrow_next_insert(t) THEN hashset_grow(t, hf) ELSE t
        key_hash == IF hash = HashSentinel THEN hf[key] ELSE hash
        r == hashset_get_bucket(g, hf, key, key_hash)
    IN  IF r.bucket = Null
        THEN [t |-> g, it |-> g.capacity]
        ELSE IF ocupied(r.data[r.bucket])
             THEN [t |-> [g EXCEPT !.data = r.data], it |-> r.bucket]
             ELSE [t |-> [data |-> [r.data EXCEPT ![r.bucket] =
                                       [flags |-> HASHMAP_BUCKET_OCCUPIED, key |-> key,
                                        value |-> NoObject, hash |-> key_hash]],
                          size |-> g.size + 1,
                          capacity |-> g.capacity],
                   it |-> r.bucket]

\* hashset::remove(key): the table afterwards and the iterator returned
hashset_remove(t, hf, k) ==
    LET it == hashset_find(t, hf, k)
    IN  IF it # t.capacity
        THEN [t |-> [data |-> [t.data EXCEPT ![it] = Tombstoned(t.data[it])],
                     size |-> t.size - 1,
                     capacity |-> t.capacity],
              it |-> it]
        ELSE [t |-> t, it |-> t.capacity]

hashset_Found(k) == hashset_find(Tbl, hashfn, k) # capacity

\* hashset::add(key): add_with_hash with the sentinel
hashset_Add(k) ==
    /\ fault = "none"
    /\ LET g == IF will_regrow_next_insert(Tbl) THEN hashset_grow(Tbl, hashfn) ELSE Tbl
           r == hashset_add_with_hash(Tbl, hashfn, k, HashSentinel)
       IN  /\ SetTbl(r.t)
           /\ last' = Call("add",
                           IF r.it = r.t.capacity THEN "full"
                           ELSE IF r.t.size = g.size THEN "present" ELSE "inserted",
                           will_regrow_next_insert(Tbl))
    /\ ref' = RefPut(ref, k, DefaultValue)
    /\ UNCHANGED <<hashfn, fault>>
    /\ UNCHANGED otherContainers

\* hashset::contains(key): find(key) != end()
hashset_Contains(k) ==
    /\ fault = "none"
    /\ \/ FindTraps /\ Trap("contains", "div_zero")
       \/ /\ last' = Call("contains", IF hashset_Found(k) THEN "found" ELSE "absent", FALSE)
          /\ UNCHANGED <<data, size, capacity, hashfn, ref, fault>>
    /\ UNCHANGED otherContainers

hashset_Remove(k) ==
    /\ fault = "none"
    /\ \/ FindTraps /\ Trap("remove", "div_zero")
       \/ /\ SetTbl(hashset_remove(Tbl, hashfn, k).t)
          /\ last' = Call("remove", IF hashset_Found(k) THEN "removed" ELSE "absent", FALSE)
          /\ ref' = RefDel(ref, k)
          /\ UNCHANGED <<hashfn, fault>>
    /\ UNCHANGED otherContainers

hashset_Reserve(n) ==
    /\ fault = "none"
    /\ SetTbl(hashset_reserve(Tbl, hashfn, n))
    /\ last' = Call("reserve", IF n > capacity THEN "rehashed" ELSE "kept", n > capacity)
    /\ UNCHANGED <<hashfn, ref, fault>>
    /\ UNCHANGED otherContainers

\* ------------------------------------------------- move construction, move assignment
\* hashset(hashset &&_Src), and hashmap(hashmap &&_Src) statement for statement:
\* the destination takes the source's array, size and capacity, the source is
\* left with nullptr, 0 and 0.
move_construct(_Src) ==
    [dst |-> [data |-> _Src.data, size |-> _Src.size, capacity |-> _Src.capacity],
     src |-> [data |-> ZeroedArray(0), size |-> 0, capacity |-> 0]]

\* operator=(hashset &&_Src) on the table this; same is (this == &_Src).
\* _free_all() releases the array of this without destroying its elements.
move_assign(this, _Src, same) ==
    IF ~same
    THEN [dst |-> [data |-> _Src.data, size |-> _Src.size, capacity |-> _Src.capacity],
          src |-> [data |-> ZeroedArray(0), size |-> 0, capacity |-> 0]]
    ELSE [dst |-> this, src |-> this]

\* How a move ended: the source is the destination itself, or it was emptied
MoveResult(m, same) ==
    IF same THEN "self" ELSE IF m.src = EmptyMap THEN "source_emptied" ELSE "source_kept"

\* hashset set2(std::move(set)); the table followed from here on is set2
MoveConstruct ==
    /\ fault = "none"
    /\ LET m == move_construct(Tbl)
       IN  /\ SetTbl(m.dst)
           /\ last' = Call("move_construct", MoveResult(m, FALSE), FALSE)
    /\ UNCHANGED <<hashfn, ref, fault>>
    /\ UNCHANGED otherContainers

\* set2 = std::move(set), set2 being a table constructed with capacity n, or
\* (same) set = std::move(set); the table followed from here on is the one
\* assigned to
MoveAssign(n, same) ==
    /\ fault = "none"
    /\ LET this == IF same THEN Tbl ELSE ReservedMap(n)
           m == move_assign(this, Tbl, same)
       IN  /\ SetTbl(m.dst)
           /\ last' = Call("move_assign", MoveResult(m, same), FALSE)
    /\ UNCHANGED <<hashfn, ref, fault>>
    /\ UNCHANGED otherContainers

\* hashset::clear() is hashmap::clear() statement for statement: Clear
NextSet ==
    \/ \E k \in Keys : hashset_Add(k)
    \/ \E k \in Keys : hashset_Contains(k)
    \/ \E k \in Keys : hashset_Remove(k)
    \/ \E n \in ReserveArgs : hashset_Reserve(n)
    \/ Clear
    \/ MoveConstruct
    \/ \E n \in {0, MaxReserve}, same \in BOOLEAN : MoveAssign(n, same)

SpecSet == Init /\ [][NextSet]_vars

\* C20 (hashset round trip): once add(k) has returned, contains(k) is true and
\* find(k) returns an iterator to a bucket that holds k, in every reachable
\* hashset state and for every hash function.
C20_HashsetRoundTrip ==
    [][last'.op = "add" =>
          \A k \in RefKeys :
              hashset_Add(k) =>
                  /\ hashset_Found(k)'
                  /\ (data[hashset_find(Tbl, hashfn, k)].key = k)'
      ]_vars

\* ------------------------------------------------------- hashmap::iterator
\* An iterator is its pointer, a bucket index; end_ptr is the index c.
RECURSIVE iterator_inc_any(_, _, _)
\* An operator++ that would stop at every bucket that is not Empty
iterator_inc_any(d, c, pointer) ==
    LET next == pointer + 1
    IN  IF next # c /\ empty(d[next]) THEN iterator_inc_any(d, c, next) ELSE next

RECURSIVE iterator_inc(_, _, _)
\* iterator::operator++(): do ++pointer while (pointer != end_ptr && !ocupied())
iterator_inc(d, c, pointer) ==
    LET next == pointer + 1
    IN  IF next # c /\ ~ocupied(d[next]) THEN iterator_inc(d, c, next) ELSE next

\* iterator(ptr, end): steps forward when ptr is not end and not Occupied
iterator(d, c, ptr) ==
    IF ptr # c /\ ~ocupied(d[ptr]) THEN iterator_inc(d, c, ptr) ELSE ptr

begin(t) == iterator(t.data, t.capacity, 0)

end(t) == iterator(t.data, t.capacity, t.capacity)

RECURSIVE IterateFrom(_, _, _)
\* for (it = from; it != end(); ++it): the buckets visited, in order. steps
\* bounds the loop by the number of buckets; a loop still short of end() after
\* that many steps is marked by a final Null.
IterateFrom(t, it, steps) ==
    IF it = end(t)
    THEN <<>>
    ELSE IF steps = 0
         THEN <<Null>>
         ELSE <<it>> \o IterateFrom(t, iterator_inc(t.data, t.capacity, it), steps - 1)

Iterate(t) == IterateFrom(t, begin(t), t.capacity)

\* C14 (hashmap iteration): in every reachable state the loop from begin() to
\* end() terminates, visits every Occupied bucket exactly once and no Empty or
\* Tombstone bucket, so it yields size entries.
C14_IterationYieldsLiveEntries ==
    LET s == Iterate(Tbl)
    IN  /\ \A n \in 1..Len(s) : s[n] # Null /\ ocupied(data[s[n]])
        /\ \A i \in DOMAIN data : ocupied(data[i]) => \E n \in 1..Len(s) : s[n] = i
        /\ \A n, m \in 1..Len(s) : s[n] = s[m] => n = m
        /\ Len(s) = size

\* A table with at least two live entries, a Tombstone and an Empty bucket,
\* whose first bucket is not Occupied, is iterated.
C14_Witness ==
    /\ size >= 2
    /\ ~ocupied(data[0])
    /\ \E i \in DOMAIN data : tombstone(data[i])
    /\ \E i \in DOMAIN data : empty(data[i])
    /\ Len(Iterate(Tbl)) = size

\* C15 (tombstone reuse does not leak capacity): capacity does not change when
\* a key is added again after its removal, or a batch again after the removal
\* of all its keys: an add of a key that is not in the set, the keys added and
\* not removed since (ref.keys), which with the new key stay below the growth
\* threshold capacity * load_factor, leaves capacity as it was.
C15_ChurnKeepsCapacity ==
    [][last'.op = "add" =>
          \A k \in Keys :
              (/\ hashset_Add(k)
               /\ k \notin ref.keys
               /\ (Cardinality(ref.keys) + 1) * LoadDen < capacity * LoadNum)
                  => capacity' = capacity
      ]_vars

\* C16 (growth rule): add and add_with_hash grow the table before inserting
\* exactly when (size + 1) > capacity * load_factor, will_regrow_next_insert()
\* is true in exactly those states, and a grow sets capacity to 2 * capacity, or
\* to 64 when capacity was 0.
C16_GrowthRule ==
    [][last'.op = "add" =>
          \A k \in Keys, v \in Values :
              (Add(k, v) \/ AddWithHash(k, v)) =>
                  LET exceeds == (size + 1) * LoadDen > capacity * LoadNum
                  IN  /\ (capacity' # capacity) <=> exceeds
                      /\ will_regrow_next_insert(Tbl) <=> exceeds
                      /\ (capacity' # capacity) =>
                            capacity' = IF capacity = 0 THEN 64 ELSE 2 * capacity
      ]_vars

\* C17 (lazy allocation): a table with capacity 0 has size 0 and no bucket
\* array; find, get, contains, try_get_value and remove on it report the key
\* absent, touch nothing and do not fail; the first add allocates 64 buckets and
\* stores the key.
C17_LazyAllocation ==
    [][capacity = 0 =>
          /\ size = 0 /\ DOMAIN data = {}
          /\ \A k \in Keys :
                (Find(k) \/ Get(k) \/ Contains(k) \/ TryGetValue(k) \/ Remove(k)) =>
                    /\ last'.res = "absent"
                    /\ fault' = "none"
                    /\ UNCHANGED <<data, size, capacity>>
          /\ \A k \in Keys, v \in Values :
                Add(k, v) =>
                    /\ capacity' = 64
                    /\ DOMAIN data' = 0..63
                    /\ size' = 1
                    /\ Found(k)'
      ]_vars

\* The first add on a default-constructed table has allocated its array.
C17_Witness ==
    /\ last = Call("add", "inserted", TRUE)
    /\ capacity = 64
    /\ size = 1

\* C18 (find and get are read-only): find(k) and get(k), for a live or an
\* absent key, return without an error, leave size, capacity and every
\* bucket's state, key, value and cached hash as they were, and report an
\* absent key as end().
C18_LookupReadOnly ==
    [][last'.op \in {"find", "get"} =>
          \A k \in Keys :
              (Find(k) \/ Get(k)) =>
                  /\ fault' = "none"
                  /\ UNCHANGED <<data, size, capacity>>
                  /\ last'.res = IF Found(k) THEN "found" ELSE "absent"
      ]_vars

\* C19 (move): move construction and move assignment of a hashset (and of a
\* hashmap, whose move operations are the same statements) transfer the whole
\* table: the destination has the source's size and capacity and finds every
\* key that was live in the source, and the source is left with size 0,
\* capacity 0 and no backing array.
C19_MoveTransfersTable ==
    [][(last'.op \in {"move_construct", "move_assign"} /\ last'.res # "self") =>
          /\ size' = size
          /\ capacity' = capacity
          /\ last'.res = "source_emptied"
          /\ \A k \in Keys :
                 Holders(Tbl, k) # {} =>
                     /\ hashset_Found(k)'
                     /\ (data[hashset_find(Tbl, hashfn, k)].key = k)'
      ]_vars

\* The keys held by an Occupied bucket of table t
LiveKeys(t) == {k \in AllKeys : Holders(t, k) # {}}

\* C21 (no duplicates in hashset): after every step no key is held by two
\* Occupied buckets and size equals the number of distinct live keys, and add(k)
\* of a key that is already live leaves size unchanged, also when a Tombstone
\* lies on k's probe path before k's bucket.
C21_HashsetNoDuplicates ==
    [][/\ \A k \in Keys : Cardinality(Holders(Tbl, k))' <= 1
       /\ size' = Cardinality(LiveKeys(Tbl))'
       /\ last'.op = "add" =>
              \A k \in Keys : (hashset_Add(k) /\ Holders(Tbl, k) # {}) => size' = size
      ]_vars

\* C22 (hashset remove): after remove(k) of a live key, contains(k) is false,
\* size has decreased by exactly 1, and every other key that was added and not
\* removed is still reported by contains, after any earlier adds and removes.
C22_HashsetRemove ==
    [][last'.op = "remove" =>
          \A k \in Keys :
              (hashset_Remove(k) /\ Holders(Tbl, k) # {}) =>
                  /\ ~hashset_Found(k)'
                  /\ size' = size - 1
                  /\ \A j \in ref.keys \ {k} : hashset_Found(j)'
      ]_vars

\* ------------------------------------------------------- hashset::iterator
RECURSIVE hashset_iterator_inc(_, _, _)
\* hashset::iterator::operator++(): do ++pointer while (pointer != end_ptr &&
\* !(flags & (OCCUPIED | TOMBSTONE)))
hashset_iterator_inc(d, c, pointer) ==
    LET next == pointer + 1
    IN  IF next # c /\ ~(ocupied(d[next]) \/ tombstone(d[next]))
        THEN hashset_iterator_inc(d, c, next)
        ELSE next

\* hashset::iterator(ptr, end): steps forward when ptr is not end and neither
\* Occupied nor Tombstone
hashset_iterator(d, c, ptr) ==
    IF ptr # c /\ ~(ocupied(d[ptr]) \/ tombstone(d[ptr]))
    THEN hashset_iterator_inc(d, c, ptr)
    ELSE ptr

hashset_begin(t) == hashset_iterator(t.data, t.capacity, 0)

hashset_end(t) == hashset_iterator(t.data, t.capacity, t.capacity)

RECURSIVE hashset_IterateFrom(_, _, _)
\* for (it = from; it != end(); ++it) on a hashset: the buckets visited, in order
hashset_IterateFrom(t, it, steps) ==
    IF it = hashset_end(t)
    THEN <<>>
    ELSE IF steps = 0
         THEN <<Null>>
         ELSE <<it>> \o hashset_IterateFrom(t, hashset_iterator_inc(t.data, t.capacity, it),
                                            steps - 1)

hashset_Iterate(t) == hashset_IterateFrom(t, hashset_begin(t), t.capacity)

\* C23 (hashset iteration): in every reachable state, also after remove, the
\* loop from begin() to end() visits Occupied buckets only, yields every live
\* key exactly once and so yields size keys.
C23_HashsetIteration ==
    LET s == hashset_Iterate(Tbl)
    IN  /\ \A n \in 1..Len(s) : s[n] # Null /\ ocupied(data[s[n]])
        /\ \A k \in LiveKeys(Tbl) : \E n \in 1..Len(s) : data[s[n]].key = k
        /\ \A n, m \in 1..Len(s) : data[s[n]].key = data[s[m]].key => n = m
        /\ Len(s) = size

\* ------------------------------------------------------- the probe sequence
RECURSIVE ProbeRun(_, _, _, _)
\* The bucket indices the while loop of hashmap::get_bucket and hashmap::find
\* (and of hashset::get_bucket) visits when no bucket ends the run: index is
\* advanced by key_probe and key_probe is incremented, capacity times.
ProbeRun(c, index, key_probe, probes) ==
    IF probes < c
    THEN <<index>> \o ProbeRun(c, (index + key_probe) % c, key_probe + 1, probes + 1)
    ELSE <<>>

\* One probe run for hash h in a table of capacity c
ProbeIndices(h, c) == ProbeRun(c, h % c, probe(h, c), 0)

RECURSIVE hashset_FindRun(_, _, _, _)
\* The bucket indices the while loop of hashset::find visits: index is advanced
\* by key_probe, which is not changed.
hashset_FindRun(c, index, key_probe, probes) ==
    IF probes < c
    THEN <<index>> \o hashset_FindRun(c, (index + key_probe) % c, key_probe, probes + 1)
    ELSE <<>>

hashset_FindIndices(h, c) == hashset_FindRun(c, h % c, probe(h, c), 0)

\* The calls that run get_bucket on the table they leave (add and operator[]
\* after their growth, get on a table with buckets)
GetBucketCalls == {"add", "subscript", "get"}

\* C27 (probe coverage): for the capacity c >= 2 of every table a probe run
\* has been made on and the hash h of every key, the c bucket indices of one
\* probe run are pairwise distinct: the run visits every bucket before it repeats.
C27_ProbeCoverage ==
    (last.op \in GetBucketCalls /\ capacity >= 2) =>
        \A key \in Keys :
            LET run == ProbeIndices(hashfn[key], capacity)
            IN  \A n, m \in 1..Len(run) : run[n] = run[m] => n = m

\* C28 (probe formula): for the capacity c >= 2 of every table a probe run has
\* been made on and the hash h of every key, the k-th bucket index visited by find and by get_bucket
\* of hashmap and of hashset is (h % c + k * (1 + h % (c - 1))) % c for
\* k = 0 .. c-1, so that lookup and insert walk the same sequence.
C28_ProbeFormula ==
    (last.op \in GetBucketCalls /\ capacity >= 2) =>
        \A key \in Keys :
            LET h == hashfn[key]
                c == capacity
            IN  \A k \in 0..(c - 1) :
                    LET kth == ((h % c) + k * (1 + (h % (c - 1)))) % c
                    IN  /\ ProbeIndices(h, c)[k + 1] = kth
                        /\ hashset_FindIndices(h, c)[k + 1] = kth

\* C29 (probe-chain reachability): in every reachable hashmap state, for every
\* Occupied bucket b holding key k, the probe run of find for k started at
\* hash(k) % capacity reaches b within capacity probes without meeting an Empty
\* bucket first: find(k) returns b.
C29_ProbeChainReachable ==
    \A k \in AllKeys : \A b \in Holders(Tbl, k) : find(Tbl, hashfn, k) = b

\* A live key lies at its third probe position or later, behind a Tombstone.
C29_Witness ==
    \E k \in Keys :
        LET run == ProbeIndices(hashfn[k], capacity)
        IN  /\ Holders(Tbl, k) # {}
            /\ capacity >= 3
            /\ tombstone(data[run[1]])
            /\ ~ocupied(data[run[2]]) \/ data[run[2]].key # k
            /\ find(Tbl, hashfn, k) \notin {run[1], run[2]}

\* The number of Occupied buckets of table t
OccupiedCount(t) == Cardinality({i \in DOMAIN t.data : ocupied(t.data[i])})

\* C30 (size accounting): in every reachable state of hashmap and of hashset,
\* size equals the number of Occupied buckets (Tombstones are not counted) and
\* size <= capacity.
C30_SizeAccounting ==
    /\ size = OccupiedCount(Tbl)
    /\ size <= capacity

\* A table with live entries and at least one Tombstone, left by a remove
C30_Witness ==
    /\ last.op = "remove" /\ last.res = "removed"
    /\ size >= 1
    /\ \E i \in DOMAIN data : tombstone(data[i])

\* A hashmap() that no call is made on, beside the container a run is about
IdleHashmap ==
    /\ capacity = 0
    /\ data = ZeroedArray(0)
    /\ size = 0
    /\ hashfn = SkewHash
    /\ ref = <<>>
    /\ last = Call("init", "constructed", FALSE)
    /\ fault = "none"

\* ------------------------------------------------------------ circular_buffer
\* What the calls on the circular_buffer leave alone
notCircularBuffer == <<data, size, capacity, hashfn, ref, deque, redblack_tree>>

\* full(): (write + 1) % capacity == read
circular_buffer_full(cb) == (cb.write + 1) % cb.capacity = cb.read

RECURSIVE circular_buffer_Items(_, _)
\* The elements from position i up to write, the oldest first
circular_buffer_Items(cb, i) ==
    IF i = cb.write
    THEN <<>>
    ELSE <<cb.buffer[i]>> \o circular_buffer_Items(cb, (i + 1) % cb.capacity)

\* push_back(value): the buffer after the call and the value returned
circular_buffer_push_back(cb, value) ==
    IF circular_buffer_full(cb)
    THEN [cb |-> cb, ret |-> FALSE]
    ELSE [cb |-> [cb EXCEPT !.buffer[cb.write] = value,
                            !.write = (cb.write + 1) % cb.capacity],
          ret |-> TRUE]

\* push_back(value) called; on circular_buffer() the test computes % 0
PushBack(v) ==
    /\ fault = "none"
    /\ \/ /\ circular_buffer.capacity = 0
          /\ fault' = "div_zero"
          /\ last' = Call("push_back", "trapped", FALSE)
          /\ UNCHANGED circular_buffer
       \/ /\ circular_buffer.capacity # 0
          /\ LET r == circular_buffer_push_back(circular_buffer, v)
             IN  /\ circular_buffer' = r.cb
                 /\ last' = Call("push_back", IF r.ret THEN "stored" ELSE "refused", FALSE)
          /\ UNCHANGED fault
    /\ UNCHANGED notCircularBuffer

\* pop_front(item): false on an empty buffer, else the oldest element is moved
\* out and destroyed
PopFront ==
    /\ fault = "none"
    /\ IF circular_buffer.read = circular_buffer.write
       THEN /\ last' = Call("pop_front", "empty", FALSE)
            /\ UNCHANGED circular_buffer
       ELSE /\ circular_buffer' =
                   [circular_buffer EXCEPT
                       !.buffer[circular_buffer.read] = NoObject,
                       !.read = (circular_buffer.read + 1) % circular_buffer.capacity]
            /\ last' = Call("pop_front", "popped", FALSE)
    /\ UNCHANGED fault
    /\ UNCHANGED notCircularBuffer

\* circular_buffer::clear(): destroys the elements from read to write
ClearBuffer ==
    /\ fault = "none"
    /\ circular_buffer' =
           [circular_buffer EXCEPT
               !.buffer = [i \in 0..(circular_buffer.capacity - 1) |-> NoObject],
               !.read = 0, !.write = 0]
    /\ last' = Call("clear", "cleared", FALSE)
    /\ UNCHANGED fault
    /\ UNCHANGED notCircularBuffer

\* A circular_buffer on a storage of 0 .. MaxBufferCapacity slots
InitBuffer ==
    /\ IdleHashmap
    /\ circular_buffer \in {NewCircularBuffer(cap) : cap \in 0..MaxBufferCapacity}
    /\ deque = NewDeque
    /\ redblack_tree = NewTree

NextBuffer ==
    \/ \E v \in Items : PushBack(v)
    \/ PopFront
    \/ ClearBuffer

SpecBuffer == InitBuffer /\ [][NextBuffer]_vars

\* C25 (circular_buffer overwrite): push_back(v) on a full buffer stores v and
\* drops the oldest stored value, so that the buffer then holds the most recent
\* values in FIFO order.
C25_PushBackOverwritesOldest ==
    [][last'.op = "push_back" =>
          \A v \in Items :
              (PushBack(v) /\ circular_buffer.capacity > 1
                           /\ circular_buffer_full(circular_buffer)) =>
                  circular_buffer_Items(circular_buffer, circular_buffer.read)' =
                      Tail(circular_buffer_Items(circular_buffer, circular_buffer.read))
                          \o <<v>>
      ]_vars

\* -------------------------------------------------------------- redblack_tree
\* A tree t is [root, node]; node[n] holds the fields of node n; nullptr is Null.
\* What the calls on the redblack_tree leave alone
notTree == <<data, size, capacity, hashfn, fault, circular_buffer, deque>>

\* left_rotate(x)
left_rotate(t, x) ==
    LET y == t.node[x].right
        yl == t.node[y].left
        xp == t.node[x].parent
        t1 == [t EXCEPT !.node[x].right = yl]
        t2 == IF yl # Null THEN [t1 EXCEPT !.node[yl].parent = x] ELSE t1
        t3 == [t2 EXCEPT !.node[y].parent = xp]
        t4 == IF xp = Null THEN [t3 EXCEPT !.root = y]
              ELSE IF x = t3.node[xp].left THEN [t3 EXCEPT !.node[xp].left = y]
              ELSE [t3 EXCEPT !.node[xp].right = y]
    IN  [t4 EXCEPT !.node[y].left = x, !.node[x].parent = y]

\* right_rotate(x)
right_rotate(t, x) ==
    LET y == t.node[x].left
        yr == t.node[y].right
        xp == t.node[x].parent
        t1 == [t EXCEPT !.node[x].left = yr]
        t2 == IF yr # Null THEN [t1 EXCEPT !.node[yr].parent = x] ELSE t1
        t3 == [t2 EXCEPT !.node[y].parent = xp]
        t4 == IF xp = Null THEN [t3 EXCEPT !.root = y]
              ELSE IF x = t3.node[xp].right THEN [t3 EXCEPT !.node[xp].right = y]
              ELSE [t3 EXCEPT !.node[xp].left = y]
    IN  [t4 EXCEPT !.node[y].right = x, !.node[x].parent = y]

RECURSIVE insert_fixup(_, _)
\* Cases 2 and 3 of insert_fixup: t is the tree after the rotation of case 2 (if
\* it applied) and z the node it left to fix
insert_fixup_case3(t, z, onLeft) ==
    LET p == t.node[z].parent
        g == t.node[p].parent
        t3 == [t EXCEPT !.node[p].is_red = FALSE, !.node[g].is_red = TRUE]
    IN  insert_fixup(IF onLeft THEN right_rotate(t3, g) ELSE left_rotate(t3, g), z)

\* insert_fixup(z): the while loop, then root->is_red = false
insert_fixup(t, z) ==
    LET p == t.node[z].parent
    IN  IF z # t.root /\ p # Null /\ t.node[p].is_red
        THEN LET g == t.node[p].parent
                 onLeft == p = t.node[g].left
                 y == IF onLeft THEN t.node[g].right ELSE t.node[g].left
             IN  IF y # Null /\ t.node[y].is_red
                 THEN insert_fixup([t EXCEPT !.node[p].is_red = FALSE,
                                             !.node[y].is_red = FALSE,
                                             !.node[g].is_red = TRUE], g)
                 ELSE IF z = (IF onLeft THEN t.node[p].right ELSE t.node[p].left)
                      THEN insert_fixup_case3(IF onLeft THEN left_rotate(t, p)
                                              ELSE right_rotate(t, p), p, onLeft)
                      ELSE insert_fixup_case3(t, z, onLeft)
        ELSE IF t.root # Null THEN [t EXCEPT !.node[t.root].is_red = FALSE] ELSE t

RECURSIVE insert_descend(_, _, _, _)
\* The while loop of insert: the node y under which new_node is linked
insert_descend(t, new_node, x, y) ==
    IF x = Null
    THEN y
    ELSE insert_descend(t, new_node,
                        IF t.node[new_node].value < t.node[x].value
                        THEN t.node[x].left ELSE t.node[x].right,
                        x)

\* insert(new_node)
insert(t, new_node) ==
    LET y == insert_descend(t, new_node, t.root, Null)
        t1 == [t EXCEPT !.node[new_node].parent = y]
        t2 == IF y = Null THEN [t1 EXCEPT !.root = new_node]
              ELSE IF t.node[new_node].value < t.node[y].value
                   THEN [t1 EXCEPT !.node[y].left = new_node]
                   ELSE [t1 EXCEPT !.node[y].right = new_node]
    IN  insert_fixup([t2 EXCEPT !.node[new_node].left = Null,
                                !.node[new_node].right = Null,
                                !.node[new_node].is_red = TRUE], new_node)

RECURSIVE minimum(_, _)
\* minimum(n)
minimum(t, n) ==
    IF n # Null /\ t.node[n].left # Null THEN minimum(t, t.node[n].left) ELSE n

\* transplant(u, v)
transplant(t, u, v) ==
    LET up == t.node[u].parent
        t1 == IF up = Null THEN [t EXCEPT !.root = v]
              ELSE IF u = t.node[up].left THEN [t EXCEPT !.node[up].left = v]
              ELSE [t EXCEPT !.node[up].right = v]
    IN  IF v # Null THEN [t1 EXCEPT !.node[v].parent = up] ELSE t1

RECURSIVE erase_fixup(_, _, _)
\* Case 4 of erase_fixup without the recolouring of w's far child
erase_fixup_case4KeepingFarRed(t, x_parent, onLeft) ==
    LET w == IF onLeft THEN t.node[x_parent].right ELSE t.node[x_parent].left
        t3 == [t EXCEPT !.node[w].is_red = t.node[x_parent].is_red,
                        !.node[x_parent].is_red = FALSE]
        t5 == IF onLeft THEN left_rotate(t3, x_parent) ELSE right_rotate(t3, x_parent)
    IN  IF t5.root # Null THEN [t5 EXCEPT !.node[t5.root].is_red = FALSE] ELSE t5

\* Case 4 of erase_fixup, then the break with x = root and x->is_red = false
\* after the loop: t is the tree after case 3 (if it applied)
erase_fixup_case4(t, x_parent, onLeft) ==
    LET w == IF onLeft THEN t.node[x_parent].right ELSE t.node[x_parent].left
        far == IF onLeft THEN t.node[w].right ELSE t.node[w].left
        t3 == [t EXCEPT !.node[w].is_red = t.node[x_parent].is_red,
                        !.node[x_parent].is_red = FALSE]
        t4 == IF far # Null THEN [t3 EXCEPT !.node[far].is_red = FALSE] ELSE t3
        t5 == IF onLeft THEN left_rotate(t4, x_parent) ELSE right_rotate(t4, x_parent)
    IN  IF t5.root # Null THEN [t5 EXCEPT !.node[t5.root].is_red = FALSE] ELSE t5

\* Cases 2 and 3 of erase_fixup: t is the tree after case 1 (if it applied)
erase_fixup_case2(t, x_parent, onLeft) ==
    LET w == IF onLeft THEN t.node[x_parent].right ELSE t.node[x_parent].left
        wl == t.node[w].left
        wr == t.node[w].right
        w_left_black == wl = Null \/ ~t.node[wl].is_red
        w_right_black == wr = Null \/ ~t.node[wr].is_red
        near == IF onLeft THEN wl ELSE wr
    IN  IF w_left_black /\ w_right_black
        THEN erase_fixup([t EXCEPT !.node[w].is_red = TRUE], x_parent,
                         t.node[x_parent].parent)
        ELSE IF (IF onLeft THEN w_right_black ELSE w_left_black)
             THEN LET c == [(IF near # Null THEN [t EXCEPT !.node[near].is_red = FALSE]
                             ELSE t) EXCEPT !.node[w].is_red = TRUE]
                  IN  erase_fixup_case4(IF onLeft THEN right_rotate(c, w)
                                        ELSE left_rotate(c, w), x_parent, onLeft)
             ELSE erase_fixup_case4(t, x_parent, onLeft)

\* erase_fixup(x, x_parent): the while loop, then x->is_red = false
erase_fixup(t, x, x_parent) ==
    IF x # t.root /\ (x = Null \/ ~t.node[x].is_red)
    THEN LET onLeft == x = (IF x_parent # Null THEN t.node[x_parent].left ELSE Null)
             w == IF onLeft THEN t.node[x_parent].right ELSE t.node[x_parent].left
             c == [t EXCEPT !.node[w].is_red = FALSE, !.node[x_parent].is_red = TRUE]
         IN  IF w # Null /\ t.node[w].is_red
             THEN erase_fixup_case2(IF onLeft THEN left_rotate(c, x_parent)
                                    ELSE right_rotate(c, x_parent), x_parent, onLeft)
             ELSE erase_fixup_case2(t, x_parent, onLeft)
    ELSE IF x # Null THEN [t EXCEPT !.node[x].is_red = FALSE] ELSE t

\* The end of the two-children branch of erase: t is the tree after
\* transplant(z, y)
erase_relink(t, z, y) ==
    LET e == [t EXCEPT !.node[y].left = t.node[z].left]
        f == IF e.node[y].left # Null
             THEN [e EXCEPT !.node[e.node[y].left].parent = y]
             ELSE e
    IN  [f EXCEPT !.node[y].is_red = f.node[z].is_red]

\* The two-children branch of erase, y being minimum(z->right) and x being
\* y->right
erase_two_children(t, z, y, x) ==
    IF t.node[y].parent = z
    THEN erase_relink(transplant(IF x # Null THEN [t EXCEPT !.node[x].parent = y] ELSE t,
                                 z, y), z, y)
    ELSE LET b == transplant(t, y, t.node[y].right)
             c == [b EXCEPT !.node[y].right = b.node[z].right]
         IN  erase_relink(transplant(IF c.node[y].right # Null
                                     THEN [c EXCEPT !.node[c.node[y].right].parent = y]
                                     ELSE c, z, y), z, y)

\* erase(z): the tree after the call and the node returned
erase(t, z) ==
    LET zl == t.node[z].left
        zr == t.node[z].right
        y == minimum(t, zr)
        two == zl # Null /\ zr # Null
        removed == IF two THEN y ELSE z
        removed_original_color == t.node[removed].is_red
        x == IF zl = Null THEN zr ELSE IF zr = Null THEN zl ELSE t.node[y].right
        x_parent == IF ~two THEN t.node[z].parent
                    ELSE IF t.node[y].parent = z THEN y ELSE t.node[y].parent
        t1 == IF zl = Null THEN transplant(t, z, zr)
              ELSE IF zr = Null THEN transplant(t, z, zl)
              ELSE erase_two_children(t, z, y, x)
    IN  [t |-> IF ~removed_original_color THEN erase_fixup(t1, x, x_parent) ELSE t1,
         removed |-> removed]

RECURSIVE Reach(_, _, _)
\* The nodes linked below n by left and right pointers, followed depth links deep
Reach(t, n, depth) ==
    IF n = Null \/ depth = 0
    THEN {}
    ELSE {n} \cup Reach(t, t.node[n].left, depth - 1) \cup Reach(t, t.node[n].right, depth - 1)

\* The nodes reachable from root
InTree(t) == Reach(t, t.root, NumNodes)

\* insert(new_node) of a node that is not in the tree; ref is the set of nodes
\* inserted and not erased
Insert(n) ==
    /\ n \notin ref
    /\ redblack_tree' = insert(redblack_tree, n)
    /\ ref' = ref \cup {n}
    /\ last' = Call("insert", n, FALSE)
    /\ UNCHANGED notTree

\* erase(z) of a node of the tree; last.res is the node returned. The caller
\* then frees z (tracking_allocator::free) and a later insert is given a node
\* constructed anew.
Erase(z) ==
    /\ z \in ref
    /\ LET r == erase(redblack_tree, z)
       IN  /\ redblack_tree' = [r.t EXCEPT !.node[z] = NewNode(z)]
           /\ last' = Call("erase", r.removed, FALSE)
    /\ ref' = ref \ {z}
    /\ UNCHANGED notTree

InitTree ==
    /\ capacity = 0
    /\ data = ZeroedArray(0)
    /\ size = 0
    /\ hashfn = SkewHash
    /\ ref = {}
    /\ last = Call("init", "constructed", FALSE)
    /\ fault = "none"
    /\ circular_buffer = NewCircularBuffer(0)
    /\ deque = NewDeque
    /\ redblack_tree = NewTree

NextTree ==
    \/ \E n \in Nodes : Insert(n)
    \/ \E z \in Nodes : Erase(z)

SpecTree == InitTree /\ [][NextTree]_vars

\* C26 (erase returns the unlinked node): after erase(z) the node returned is not
\* reachable from root, and every other node that was in the tree is still
\* reachable, whether z had zero, one or two children.
C26_EraseReturnsUnlinkedNode ==
    [][last'.op = "erase" =>
          /\ last'.res \notin InTree(redblack_tree)'
          /\ \A n \in InTree(redblack_tree) \ {last'.res} : n \in InTree(redblack_tree)'
      ]_vars

\* ------------------------------------------------------------------- deque
\* block_map is a function on 0..map_size-1 whose values are blocks (functions
\* on 0..BLOCK_SIZE-1) or <<>> for nullptr; block_map == nullptr is map_size = 0.
\* A size_t value above 2^63 is represented by the negative integer congruent
\* to it modulo 2^64 (SIZE_MAX is -1): the bounds keep every value close to 0,
\* where +, - and * on the representatives are the arithmetic modulo 2^64.
\* What the calls on the deque leave alone
notDeque == <<data, size, capacity, hashfn, circular_buffer, redblack_tree>>

\* allocator().malloc(BLOCK_SIZE * sizeof(T)): a block holding no object
deque_malloc_block == [i \in 0..(BLOCK_SIZE - 1) |-> NoObject]

\* initialize_map()
deque_initialize_map(d) ==
    [block_map |-> [b \in 0..3 |-> IF b = 2 THEN deque_malloc_block ELSE <<>>],
     front_block |-> 2, back_block |-> 2, map_size |-> 4,
     start_offset |-> 0, end_offset |-> 0]

\* resize_map()
deque_resize_map(d) ==
    LET new_map_size == d.map_size * 2
        blocks_in_use == d.back_block - d.front_block + 1
        half == (new_map_size - blocks_in_use) \div 2
        new_front_block == IF half = 0 THEN 1 ELSE half
    IN  [d EXCEPT !.block_map = [b \in 0..(new_map_size - 1) |->
                                    IF b >= new_front_block /\ b < new_front_block + blocks_in_use
                                    THEN d.block_map[d.front_block + (b - new_front_block)]
                                    ELSE <<>>],
                  !.front_block = new_front_block,
                  !.back_block = new_front_block + blocks_in_use - 1,
                  !.map_size = new_map_size]

\* size()
deque_size(d) ==
    IF d.map_size = 0
    THEN 0
    ELSE IF d.front_block = d.back_block
         THEN d.end_offset - d.start_offset
         ELSE (BLOCK_SIZE - d.start_offset) + d.end_offset
              + (d.back_block - d.front_block - 1) * BLOCK_SIZE

\* empty()
deque_empty(d) == deque_size(d) = 0

\* block_map[block][offset] is an element of an allocated block
deque_in_bounds(d, block, offset) ==
    /\ block \in 0..(d.map_size - 1)
    /\ d.block_map[block] # <<>>
    /\ offset \in 0..(BLOCK_SIZE - 1)

\* block_map[block][offset] written (value) or destroyed (NoObject); outside
\* the blocks the access is undefined and leaves the blocks as they are
deque_put(d, block, offset, value) ==
    IF deque_in_bounds(d, block, offset)
    THEN [d EXCEPT !.block_map[block][offset] = value]
    ELSE d

\* The values a read of block_map[block][offset] can give: outside the blocks
\* the read is undefined and gives whatever the memory there holds
deque_get(d, block, offset) ==
    IF deque_in_bounds(d, block, offset)
    THEN {d.block_map[block][offset]}
    ELSE {NoObject} \cup Items

\* push_back(value): the deque after the call, and whether the placement new
\* was outside the blocks
deque_push_back(d, value) ==
    LET d1 == IF d.map_size = 0 THEN deque_initialize_map(d)
              ELSE IF d.end_offset = BLOCK_SIZE
                   THEN LET d2 == IF d.back_block + 1 = d.map_size
                                  THEN deque_resize_map(d) ELSE d
                        IN  [d2 EXCEPT !.back_block = d2.back_block + 1,
                                       !.block_map[d2.back_block + 1] = deque_malloc_block,
                                       !.end_offset = 0]
                   ELSE d
    IN  [d |-> [deque_put(d1, d1.back_block, d1.end_offset, value)
                   EXCEPT !.end_offset = d1.end_offset + 1],
         wild |-> ~deque_in_bounds(d1, d1.back_block, d1.end_offset)]

\* push_front(value)
deque_push_front(d, value) ==
    LET d1 == IF d.map_size = 0 THEN deque_initialize_map(d) ELSE d
        d2 == IF d1.start_offset = 0 /\ d1.front_block = 0 THEN deque_resize_map(d1) ELSE d1
        d3 == IF d1.start_offset = 0
              THEN [d2 EXCEPT !.front_block = d2.front_block - 1,
                              !.block_map[d2.front_block - 1] = deque_malloc_block,
                              !.start_offset = BLOCK_SIZE - 1]
              ELSE [d2 EXCEPT !.start_offset = d2.start_offset - 1]
    IN  [d |-> deque_put(d3, d3.front_block, d3.start_offset, value),
         wild |-> ~deque_in_bounds(d3, d3.front_block, d3.start_offset)]

\* pop_back()
deque_pop_back(d) ==
    IF deque_empty(d)
    THEN [d |-> d, wild |-> FALSE]
    ELSE LET end_offset == d.end_offset - 1
             d1 == [deque_put(d, d.back_block, end_offset, NoObject)
                       EXCEPT !.end_offset = end_offset]
         IN  [d |-> IF end_offset = 0 /\ d.back_block # d.front_block
                    THEN [d1 EXCEPT !.block_map[d.back_block] = <<>>,
                                    !.back_block = d.back_block - 1,
                                    !.end_offset = BLOCK_SIZE]
                    ELSE d1,
              wild |-> ~deque_in_bounds(d, d.back_block, end_offset)]

\* pop_front()
deque_pop_front(d) ==
    IF deque_empty(d)
    THEN [d |-> d, wild |-> FALSE]
    ELSE LET start_offset == d.start_offset + 1
             d1 == [deque_put(d, d.front_block, d.start_offset, NoObject)
                       EXCEPT !.start_offset = start_offset]
         IN  [d |-> IF start_offset = BLOCK_SIZE /\ d.front_block # d.back_block
                    THEN [d1 EXCEPT !.block_map[d.front_block] = <<>>,
                                    !.front_block = d.front_block + 1,
                                    !.start_offset = 0]
                    ELSE d1,
              wild |-> ~deque_in_bounds(d, d.front_block, d.start_offset)]

\* operator[](index): the values the reference returned can hold
deque_subscript(d, index) ==
    LET offset == d.start_offset + index
    IN  IF offset >= BLOCK_SIZE
        THEN deque_get(d, d.front_block + (offset \div BLOCK_SIZE), offset % BLOCK_SIZE)
        ELSE deque_get(d, d.front_block, offset)

\* front()
deque_front(d) == deque_get(d, d.front_block, d.start_offset)

\* back()
deque_back(d) ==
    IF d.end_offset = 0
    THEN deque_get(d, d.back_block - 1, BLOCK_SIZE - 1)
    ELSE deque_get(d, d.back_block, d.end_offset - 1)

\* A call on the deque ends: r is the deque it leaves and whether it accessed
\* memory outside the blocks. Such an access either stops the process or goes
\* unnoticed. newref is the reference sequence after the same call.
DequeCall(op, r, newref) ==
    /\ r.d.map_size <= MaxMapSize
    /\ r.d.end_offset >= 0 - MaxDrift
    /\ r.d.start_offset <= BLOCK_SIZE + MaxDrift
    /\ \/ /\ deque' = r.d
          /\ ref' = newref
          /\ last' = Call(op, IF r.wild THEN "wild" ELSE "done", FALSE)
          /\ UNCHANGED fault
       \/ /\ r.wild
          /\ fault' = "out_of_bounds"
          /\ last' = Call(op, "trapped", FALSE)
          /\ UNCHANGED <<deque, ref>>
    /\ UNCHANGED notDeque

DequePushBack(v) ==
    /\ fault = "none"
    /\ Len(ref) < MaxDequeSize
    /\ DequeCall("push_back", deque_push_back(deque, v), Append(ref, v))

DequePushFront(v) ==
    /\ fault = "none"
    /\ Len(ref) < MaxDequeSize
    /\ DequeCall("push_front", deque_push_front(deque, v), <<v>> \o ref)

DequePopBack ==
    /\ fault = "none"
    /\ DequeCall("pop_back", deque_pop_back(deque),
                 IF ref = <<>> THEN ref ELSE SubSeq(ref, 1, Len(ref) - 1))

DequePopFront ==
    /\ fault = "none"
    /\ DequeCall("pop_front", deque_pop_front(deque), IF ref = <<>> THEN ref ELSE Tail(ref))

InitDeque ==
    /\ IdleHashmap
    /\ circular_buffer = NewCircularBuffer(0)
    /\ deque = NewDeque
    /\ redblack_tree = NewTree

NextDeque ==
    \/ \E v \in Items : DequePushBack(v)
    \/ \E v \in Items : DequePushFront(v)
    \/ DequePopBack
    \/ DequePopFront

SpecDeque == InitDeque /\ [][NextDeque]_vars

\* The deque d answers size(), front(), back() and operator[] as the sequence s
deque_Matches(d, s) ==
    /\ deque_size(d) = Len(s)
    /\ s # <<>> =>
          /\ deque_front(d) = {s[1]}
          /\ deque_back(d) = {s[Len(s)]}
          /\ \A i \in 0..(Len(s) - 1) : deque_subscript(d, i) = {s[i + 1]}

\* C24 (deque matches a reference sequence): after every push_back, push_front,
\* pop_back and pop_front on an initially empty deque, size(), front(), back()
\* and operator[](i) for i < size() agree with the reference sequence driven by
\* the same calls, and a pop on an empty deque changes nothing.
C24_DequeMatchesReference ==
    [][/\ deque_Matches(deque, ref)'
       /\ (last'.op \in {"pop_back", "pop_front"} /\ ref = <<>>) => deque' = deque
      ]_vars

\* ------------------------------------------------------ tombstones and growth
\* C31 (tombstone reuse on insert): when add inserts a key that is not live and
\* the probe run on the table it inserts into (after its growth, if any) passed
\* a Tombstone before the first Empty bucket or before capacity probes were
\* made, the key is stored in the first Tombstone of the run and the Empty
\* bucket stays Empty; it is stored in the Empty bucket only when the run saw
\* no Tombstone.
C31_TombstoneReuse ==
    [][(last'.op = "add" /\ last'.res = "inserted") =>
          \A k \in Keys, v \in Values :
              LET g == IF will_regrow_next_insert(Tbl) THEN grow(Tbl, hashfn) ELSE Tbl
                  run == ProbeIndices(hashfn[k], g.capacity)
                  empties == {n \in 1..Len(run) : empty(g.data[run[n]])}
                  firstEmpty == IF empties = {} THEN Len(run) + 1
                                ELSE CHOOSE n \in empties : \A m \in empties : n <= m
                  tombs == {n \in 1..(firstEmpty - 1) : tombstone(g.data[run[n]])}
                  firstTomb == CHOOSE n \in tombs : \A m \in tombs : n <= m
              IN  (Add(k, v) /\ Holders(g, k) = {}) =>
                      IF tombs # {}
                      THEN /\ ocupied(data'[run[firstTomb]])
                           /\ data'[run[firstTomb]].key = k
                           /\ empties # {} => empty(data'[run[firstEmpty]])
                      ELSE /\ ocupied(data'[run[firstEmpty]])
                           /\ data'[run[firstEmpty]].key = k
      ]_vars

\* An add has just stored the only live key at the first bucket of the run all
\* keys share, the second bucket of the run is a Tombstone and an Empty bucket
\* follows: the first bucket was a Tombstone when the add ran.
C31_Witness ==
    /\ last.op = "add" /\ last.res = "inserted" /\ ~last.grew
    /\ size = 1
    /\ capacity >= 3
    /\ \A k \in Keys : hashfn[k] = hashfn[1]
    /\ LET run == ProbeIndices(hashfn[1], capacity)
       IN  /\ ocupied(data[run[1]])
           /\ tombstone(data[run[2]])
           /\ run[3] \notin {run[1], run[2]}
           /\ empty(data[run[3]])

\* C32 (bucket state machine): in a step that keeps the backing array (no
\* rehash, no clear) a bucket keeps its state or goes Empty -> Occupied,
\* Occupied -> Tombstone or Tombstone -> Occupied; no bucket that is Occupied or
\* a Tombstone becomes Empty, and remove only turns Occupied into Tombstone.
C32_BucketStateMachine ==
    [][(last'.op # "clear" /\ ~last'.grew /\ capacity' = capacity) =>
          \A i \in DOMAIN data :
              /\ empty(data[i]) => (empty(data'[i]) \/ ocupied(data'[i]))
              /\ ocupied(data[i]) => (ocupied(data'[i]) \/ tombstone(data'[i]))
              /\ tombstone(data[i]) => (tombstone(data'[i]) \/ ocupied(data'[i]))
              /\ last'.op = "remove" =>
                    \/ empty(data'[i]) = empty(data[i]) /\ ocupied(data'[i]) = ocupied(data[i])
                    \/ ocupied(data[i]) /\ tombstone(data'[i])
      ]_vars

\* An add into the array it found has left a table with an Occupied bucket, a
\* Tombstone and an Empty bucket
C32_Witness ==
    /\ last.op = "add" /\ last.res = "inserted" /\ ~last.grew
    /\ \E i, j, n \in DOMAIN data :
          ocupied(data[i]) /\ tombstone(data[j]) /\ empty(data[n])

\* C33 (rehash drops tombstones): the table grow() leaves, and the table
\* reserve(n) leaves for every n > capacity, holds no Tombstone, and the number
\* of its buckets that are not Empty equals its size.
C33_RehashDropsTombstones ==
    \A t \in {grow(Tbl, hashfn)} \cup {reserve(Tbl, hashfn, n) : n \in ReserveArgs} :
        t.capacity # capacity =>
            /\ \A i \in DOMAIN t.data : ~tombstone(t.data[i])
            /\ Cardinality({i \in DOMAIN t.data : ~empty(t.data[i])}) = t.size

\* A table with a live key and a Tombstone that reserve(MaxReserve) rehashes
C33_Witness ==
    /\ size >= 1
    /\ \E i \in DOMAIN data : tombstone(data[i])
    /\ capacity < MaxReserve
    /\ reserve(Tbl, hashfn, MaxReserve).size = size
    /\ reserve(Tbl, hashfn, MaxReserve).capacity = MaxReserve

\* C34 (tombstones count toward load): add grows the table when the number of
\* buckets that are not Empty (Occupied and Tombstone) plus one reaches
\* capacity * load_factor, although size counts the Occupied buckets only.
C34_TombstonesCountTowardLoad ==
    [][(/\ last'.op = "add"
        /\ (Cardinality({i \in DOMAIN data : ~empty(data[i])}) + 1) * LoadDen
               >= capacity * LoadNum)
          => capacity' > capacity
      ]_vars

\* C35 (cached hash): in every reachable hashmap state every Occupied bucket's
\* _hash equals the hash of the key it holds, add_with_hash being called with
\* the key's hash or with the sentinel only; a rehash, which hands the stored
\* _hash to add_with_hash, keeps the equality.
C35_CachedHash ==
    \A i \in DOMAIN data : ocupied(data[i]) => data[i].hash = hashfn[data[i].key]

\* A rehash by reserve has re-inserted two keys one of which has a hash other
\* than 0
C35_Witness ==
    /\ last.op = "reserve" /\ last.grew
    /\ size >= 2
    /\ \E i \in DOMAIN data : ocupied(data[i]) /\ data[i].hash # 0

\* Adds and removes on a hashmap(n) that the keys never make grow
InitChurn == InitWith(HashFuncs) /\ capacity >= MaxReserve - 1

NextChurn ==
    \/ \E k \in Keys, v \in Values : Add(k, v)
    \/ \E k \in Keys : Remove(k)

SpecChurn == InitChurn /\ [][NextChurn]_vars

\* C36 (iterator stability under removal): an iterator positioned on a live key
\* k2 stays valid across remove(k1) for k1 # k2: its bucket still holds k2 and
\* the value, and advancing it until end() visits exactly the buckets after its
\* position that are Occupied after the removal, each once.
C36_IteratorStableUnderRemove ==
    [][last'.op = "remove" =>
          \A k1, k2 \in Keys : \A it \in {find(Tbl, hashfn, k2)} :
              (k1 # k2 /\ it # capacity /\ Remove(k1)) =>
                  /\ ocupied(data'[it])
                  /\ data'[it].key = k2
                  /\ data'[it].value = data[it].value
                  /\ LET rest == IterateFrom(Tbl, iterator_inc(data, capacity, it), capacity)'
                         after == {j \in DOMAIN data' : j > it /\ ocupied(data'[j])}
                     IN  /\ {rest[n] : n \in 1..Len(rest)} = after
                         /\ Len(rest) = Cardinality(after)
      ]_vars

\* A remove has left a Tombstone between two Occupied buckets: an iterator on
\* the first of them passes the removed entry on its way to the second
C36_Witness ==
    /\ last.op = "remove" /\ last.res = "removed"
    /\ \E i, j, n \in DOMAIN data :
          /\ i < j /\ j < n
          /\ ocupied(data[i]) /\ tombstone(data[j]) /\ ocupied(data[n])

\* ---------------------------------------------------------- bounded probing
RECURSIVE FindProbes(_, _, _, _, _, _, _)
\* The number of buckets the while loop of find inspects before it returns
FindProbes(d, c, key, h, index, key_probe, probes) ==
    IF probes < c
    THEN IF ocupied(d[index])
         THEN IF d[index].hash = h /\ d[index].key = key
              THEN probes + 1
              ELSE FindProbes(d, c, key, h, (index + key_probe) % c, key_probe + 1, probes + 1)
         ELSE IF ~tombstone(d[index])
              THEN probes + 1
              ELSE FindProbes(d, c, key, h, (index + key_probe) % c, key_probe + 1, probes + 1)
    ELSE probes

RECURSIVE GetBucketProbes(_, _, _, _, _, _, _)
\* The number of buckets the while loop of get_bucket inspects before it returns
GetBucketProbes(d, c, key, h, index, key_probe, probes) ==
    IF probes < c
    THEN IF ocupied(d[index]) /\ d[index].hash = h /\ d[index].key = key
         THEN probes + 1
         ELSE IF empty(d[index])
              THEN probes + 1
              ELSE GetBucketProbes(d, c, key, h, (index + key_probe) % c, key_probe + 1,
                                   probes + 1)
    ELSE probes

\* C37 (bounded probing): in every state, a table without an Empty bucket
\* included, find and get_bucket return after inspecting at most capacity
\* buckets, so that every lookup, insert and remove returns.
C37_BoundedProbing ==
    [][/\ last'.op \in {"find", "contains", "try_get_value", "get", "add", "subscript",
                        "remove"} => fault' # "div_zero"
       /\ capacity' > 0 =>
             \A k \in Keys :
                 LET h == hashfn[k]
                 IN  /\ FindProbes(data, capacity, k, h, h % capacity,
                                   probe(h, capacity), 0)' <= capacity'
                     /\ GetBucketProbes(data, capacity, k, h, h % capacity,
                                        probe(h, capacity), 0)' <= capacity'
      ]_vars

\* C39 (probe step well defined): on every table with capacity > 0 that get,
\* add or operator[] has probed, capacity 1 from hashmap(1) or reserve(1)
\* included, no modulo by zero occurred and the step probe() computes for every
\* key lies in 1 .. capacity - 1.
C39_ProbeStepDefined ==
    (last.op \in GetBucketCalls /\ capacity > 0) =>
        /\ fault # "div_zero"
        /\ \A k \in Keys :
              /\ ~DivByZero(capacity)
              /\ probe(hashfn[k], capacity) \in 1..(capacity - 1)

\* ---------------------------------------------------------------------------
\* Lifetime of the key and value objects constructed in buckets
\* ---------------------------------------------------------------------------

\* destroy(): the buckets whose key and value destructors it runs, every
\* Occupied bucket the iterator visits.
destroy(t) == {i \in DOMAIN t.data : ocupied(t.data[i])}

\* operator=(hashmap&&): the buckets of the assigned-to table whose destructors
\* run before _free_all() releases its backing array. The operator calls
\* _free_all() directly and never destroy().
MoveAssignDestroyed(t) == {i \in DOMAIN t.data : FALSE}

\* C38 (entry lifetime): every key and value object constructed in a bucket is
\* destroyed exactly once. A step that replaces the backing array (the rehash
\* of reserve and grow, which move-assigns the new table over the old one) has
\* destroyed every entry of the array it frees; a step that keeps the array
\* ends the life of an entry only in remove and clear, which run its
\* destructors.
C38_EntryLifetime ==
    [][/\ capacity' # capacity =>
              destroy(Tbl) \subseteq MoveAssignDestroyed(Tbl)
       /\ capacity' = capacity =>
              \A i \in DOMAIN data :
                  (ocupied(data[i]) /\ ~ocupied(data'[i])) =>
                      last'.op \in {"remove", "clear"}]_vars

\* C40 (red-black invariants): after any sequence of insert and erase, duplicate
\* values allowed, the nodes linked below root are exactly the nodes inserted
\* and not erased; the tree is a binary search tree (nothing below a left link
\* is greater and nothing below a right link is smaller than the node, so the
\* in-order traversal is non-decreasing); the root is black; no red node has a
\* red child; every path from root to a null child passes the same number of
\* black nodes; and the parent pointer of each child names its parent (that of
\* root is null).
C40_RedBlackInvariants ==
    LET t == redblack_tree
        in_tree == InTree(t)
        below(n) == Reach(t, n, NumNodes)
        is_red(n) == n # Null /\ t.node[n].is_red
        \* the black nodes on the path from root to n, n included
        black_depth(n) == Cardinality({m \in in_tree : n \in below(m) /\ ~t.node[m].is_red})
        null_child == {n \in in_tree : t.node[n].left = Null \/ t.node[n].right = Null}
    IN  /\ in_tree = ref
        /\ \A n \in in_tree :
              /\ \A m \in below(t.node[n].left) : t.node[m].value <= t.node[n].value
              /\ \A m \in below(t.node[n].right) : t.node[m].value >= t.node[n].value
              /\ below(t.node[n].left) \cap below(t.node[n].right) = {}
              /\ n \notin below(t.node[n].left) \cup below(t.node[n].right)
        /\ t.root # Null => (~t.node[t.root].is_red /\ t.node[t.root].parent = Null)
        /\ \A n \in in_tree :
              t.node[n].is_red => (~is_red(t.node[n].left) /\ ~is_red(t.node[n].right))
        /\ \A n, m \in null_child : black_depth(n) = black_depth(m)
        /\ \A n \in in_tree :
              /\ t.node[n].left # Null => t.node[t.node[n].left].parent = n
              /\ t.node[n].right # Null => t.node[t.node[n].right].parent = n

\* An erase has left six nodes in the tree, one of them red, and a node whose
\* left subtree holds a value equal to its own (a duplicate that the rotations
\* moved to the left)
C40_Witness ==
    /\ last.op = "erase"
    /\ Cardinality(ref) = NumNodes - 1
    /\ \E n \in ref : redblack_tree.node[n].is_red
    /\ \E n \in ref :
          \E m \in Reach(redblack_tree, redblack_tree.node[n].left, NumNodes) :
              redblack_tree.node[m].value = redblack_tree.node[n].value
====
